---- MODULE Spec2Model ----
(***************************************************************************)
(* Model of the real-time posting core.                                    *)
(*                                                                         *)
(* Two programs live in the repository and are modelled side by side:      *)
(*   - src/websockets/post_updates.go : the open-post mutation protocol of *)
(*     one websocket Client (appendRune, backspace, spliceText, closePost, *)
(*     insertImage, spoilerImage).  Specifications Spec, SpecFail (the     *)
(*     Store can fail), SpecAll (all handlers, both boards) and SpecSteal  *)
(*     (image stealing between threads).                                   *)
(*   - src/server/db.js : the redis-backed thread log, pub/sub feed and    *)
(*     the post -> thread registry (OPs).  Specifications SpecDB (posting  *)
(*     and the OP tracker), SpecTail (a post inserted by another process), *)
(*     SpecImage (uploads), SpecRemove (a moderator removing posts),       *)
(*     SpecRemovers (two clients removing posts) and SpecFeed              *)
(*     (subscriptions and backlogs).                                       *)
(***************************************************************************)
EXTENDS Integers, Sequences, FiniteSets, TLC

\* ------------------------------------------------------------------ bounds
\* common.MaxLenBody, scaled down (runes per post body)
MaxLenBody == 2
\* common.MaxLinesBody, scaled down (newlines per post body)
MaxLinesBody == 1

\* spam score above which the client must solve a captcha before writing
MaxSpam == 0

\* --------------------------------------------------------------- runes
\* the rune the handlers reject as common.ErrContainsNull
NUL == 0
\* '\n'
NL == 10
\* utf8.RuneError, U+FFFD
RuneError == 65533

\* runes a client can type that pass validation: 'a' (97), '\n', and the
\* two-byte rune U+00E9 (233)
GoodRunes == {97, NL, 233}
\* runes a client can send in an append request: the above, NUL and the
\* control character BEL (7)
Runes == GoodRunes \cup {NUL, 7}

\* ------------------------------------------------------------ UTF-8
\* utf8.RuneLen
RuneLen(r) ==
    IF r < 0 THEN -1
    ELSE IF r < 128 THEN 1
    ELSE IF r < 2048 THEN 2
    ELSE IF r < 65536 THEN 3
    ELSE 4

\* string(rune): the UTF-8 bytes of one rune
EncodeRune(r) ==
    IF r < 128 THEN <<r>>
    ELSE IF r < 2048 THEN <<192 + (r \div 64), 128 + (r % 64)>>
    ELSE <<224 + (r \div 4096), 128 + ((r \div 64) % 64), 128 + (r % 64)>>

\* string([]rune)
RECURSIVE EncodeRunes(_)
EncodeRunes(rs) ==
    IF rs = <<>> THEN <<>> ELSE EncodeRune(Head(rs)) \o EncodeRunes(Tail(rs))

IsCont(b) == b >= 128 /\ b < 192

\* utf8.DecodeRune on the front of a byte sequence: <<rune, size>>
DecodeFirst(bs) ==
    LET b == bs[1] IN
    IF b < 128 THEN <<b, 1>>
    ELSE IF b >= 192 /\ b < 224 /\ Len(bs) >= 2 /\ IsCont(bs[2])
        THEN <<(b - 192) * 64 + (bs[2] - 128), 2>>
    ELSE IF b >= 224 /\ b < 240 /\ Len(bs) >= 3 /\ IsCont(bs[2]) /\ IsCont(bs[3])
        THEN <<(b - 224) * 4096 + (bs[2] - 128) * 64 + (bs[3] - 128), 3>>
    ELSE <<RuneError, 1>>

\* []rune(string(bytes))
RECURSIVE DecodeRunes(_)
DecodeRunes(bs) ==
    IF bs = <<>> THEN <<>>
    ELSE LET d == DecodeFirst(bs) IN
         <<d[1]>> \o DecodeRunes(SubSeq(bs, d[2] + 1, Len(bs)))

\* utf8.DecodeLastRune: <<rune, size>> of the last rune of a non-empty
\* byte sequence
DecodeLastRune(bs) ==
    LET n == Len(bs)
        \* start of the last rune: walk back over continuation bytes
        start == IF ~IsCont(bs[n]) THEN n
                 ELSE IF n >= 2 /\ ~IsCont(bs[n - 1]) THEN n - 1
                 ELSE IF n >= 3 /\ ~IsCont(bs[n - 2]) THEN n - 2
                 ELSE n
        d == DecodeFirst(SubSeq(bs, start, n))
    IN IF start + d[2] - 1 = n THEN d ELSE <<RuneError, 1>>

\* utf8.RuneCount
RuneCount(bs) == Len(DecodeRunes(bs))

\* parser.IsPrintable: rejects NUL and control characters other than tab
\* and (when allowed) newline
IsPrintable(r, multiline) ==
    /\ r # NUL
    /\ r # 127
    /\ r # RuneError
    /\ (r < 32 => (r = 9 \/ (r = NL /\ multiline)))

\* parser.IsPrintableRunes
IsPrintableRunes(rs, multiline) ==
    \A i \in 1..Len(rs) : IsPrintable(rs[i], multiline)

\* number of '\n' bytes in a body
CountNL(bs) == Cardinality({i \in 1..Len(bs) : bs[i] = NL})

\* bytes.Contains
Contains(bs, sub) ==
    \E i \in 0..(Len(bs) - Len(sub)) : SubSeq(bs, i + 1, i + Len(sub)) = sub

\* ---------------------------------------------- client state (Go)
VARIABLES
    post,        \* Client.post : the openPost of the client
    openBodies,  \* Feed mirror : post id -> open body
    dbOpenBody,  \* Store : open-body key of each post (Absent when none)
    dbBody,      \* Store : final body in the post record (Absent until closed)
    dbImage,     \* Store : image of each post: "none", "plain" or "spoiler"
    spamScore,   \* Throttle : spam score of the client's session
    inbox,       \* the frame the client's reader task has received (NoMsg when none)
    out          \* what the handler of the last frame returned and broadcast (Idle
                 \* once the reply is written to the socket)

goVars == <<post, openBodies, dbOpenBody, dbBody, dbImage, spamScore, inbox, out>>

\* the redis store, the process-wide OPs and SUBS, and the Yakusoku of
\* the clients (src/server/db.js)
VARIABLES rPostctr, rHash, rBody, rPosts, rHistory, rHctr, rBumpctr, rThreads,
          rMD5s, OPs, SUBS, tracking, opQ, yaku, seen
dbVars == <<rPostctr, rHash, rBody, rPosts, rHistory, rHctr, rBumpctr, rThreads,
            rMD5s, OPs, SUBS, tracking, opQ, yaku, seen>>

\* post 1 is the post the client opens; post 2 is a post of another client
PostIDs == {1, 2}
Absent == <<-1>>
\* board "a" accepts images, board "t" is text-only
Boards == {"a", "t"}
\* config.GetBoardConfigs(board).TextOnly
TextOnly(board) == board = "t"
\* config.Get().CharScore
CharScore == 1
\* config.Get().ImageScore
ImageScore == 2

\* openPost{}
NoPost == [id |-> 0, op |-> 0, board |-> "", len |-> 0, lines |-> 0,
           body |-> <<>>, isSpoilered |-> FALSE]

NoReq == [start |-> 0, len |-> 0, text |-> <<>>]

\* the errors of the package
errNone == "nil"
errNoPostOpen == "no post open"
errEmptyPost == "post body empty"
errTooManyLines == "too many lines in post body"
errSpliceTooLong == "splice text too long"
errSpliceNOOP == "splice NOOP"
errTextOnly == "text only board"
errInvalidSpliceCoords == "invalid splice coordinates"
ErrBodyTooLong == "body too long"
ErrContainsNull == "null byte in text"
errNotPrintable == "contains non-printable character"
errNoImage == "post does not have an image"
errHasImage == "post already has image"
errDecode == "invalid message"
errDB == "database error"

\* Client.hasPost: <<has, err>>
hasPost(p) == IF p.id = 0 THEN <<FALSE, errNoPostOpen>> ELSE <<TRUE, errNone>>

\* openPost.countLines
countLines(p) == [p EXCEPT !.lines = CountNL(p.body)]

\* ------------------------------------------------------ handlers (Go)
\* A handler core returns [post, err, upd, msg, n]: the openPost it
\* leaves, the error it returns before reaching updateBody (errNone when it
\* reaches it), whether it calls updateBody, and updateBody's arguments.
Ret(p, e) == [post |-> p, err |-> e, upd |-> FALSE, msg |-> [type |-> "none"], n |-> 0]
Upd(p, m, k) == [post |-> p, err |-> errNone, upd |-> TRUE, msg |-> m, n |-> k]

\* Client.appendRune; data = [ok, char]: whether the frame decodes and
\* the rune it carries
appendRune(p, data) ==
    LET hp == hasPost(p) IN
    IF hp[2] # errNone THEN Ret(p, hp[2])
    ELSE IF ~hp[1] THEN Ret(p, errNone)
    ELSE IF p.len + 1 > MaxLenBody THEN Ret(p, ErrBodyTooLong)
    ELSE IF ~data.ok THEN Ret(p, errDecode)
    ELSE IF data.char = NUL THEN Ret(p, ErrContainsNull)
    ELSE LET p1 == IF data.char = NL THEN [p EXCEPT !.lines = p.lines + 1] ELSE p IN
         IF data.char = NL /\ p1.lines > MaxLinesBody THEN Ret(p1, errTooManyLines)
         ELSE IF ~IsPrintable(data.char, TRUE) THEN Ret(p1, errNotPrintable)
         ELSE Upd([p1 EXCEPT !.body = p1.body \o EncodeRune(data.char),
                             !.len = p1.len + 1],
                  [type |-> "Append", id |-> p.id, char |-> data.char], 1)

\* a backspace that drops one byte whatever the last rune is
backspaceOneByte(p) ==
    LET hp == hasPost(p) IN
    IF hp[2] # errNone THEN Ret(p, hp[2])
    ELSE IF ~hp[1] THEN Ret(p, errNone)
    ELSE IF p.len = 0 THEN Ret(p, errEmptyPost)
    ELSE LET d == DecodeLastRune(p.body)
             p1 == [p EXCEPT !.body = SubSeq(p.body, 1, Len(p.body) - 1)]
             p2 == IF d[1] = NL THEN [p1 EXCEPT !.lines = p1.lines - 1] ELSE p1
         IN Upd([p2 EXCEPT !.len = p2.len - 1], [type |-> "Backspace", id |-> p.id], 1)

\* Client.backspace
backspace(p) ==
    LET hp == hasPost(p) IN
    IF hp[2] # errNone THEN Ret(p, hp[2])
    ELSE IF ~hp[1] THEN Ret(p, errNone)
    ELSE IF p.len = 0 THEN Ret(p, errEmptyPost)
    ELSE LET d == DecodeLastRune(p.body)
             p1 == [p EXCEPT !.body = SubSeq(p.body, 1, Len(p.body) - d[2])]
             p2 == IF d[1] = NL THEN [p1 EXCEPT !.lines = p1.lines - 1] ELSE p1
         IN Upd([p2 EXCEPT !.len = p2.len - 1], [type |-> "Backspace", id |-> p.id], 1)

\* a byte offset that takes every rune for one byte
byteStartPosOneByte(old, start) == start

\* byteStartPos of spliceText: the byte offset of rune index start
byteStartPos(old, start) ==
    LET RECURSIVE sum(_)
        sum(i) == IF i = 0 THEN 0 ELSE sum(i - 1) + RuneLen(old[i])
    IN sum(start)

\* a trim that drops the overflow from the front of the new tail
trimEndFront(end, exceeding) ==
    IF exceeding > 0 THEN SubSeq(end, exceeding + 1, Len(end)) ELSE end

\* spliceText: "If it goes over the max post length, trim the end"
trimEnd(end, exceeding) ==
    IF exceeding > 0 THEN SubSeq(end, 1, Len(end) - exceeding) ELSE end

\* a broadcast length counted in bytes
overflowLenBytes(old, start) == Len(EncodeRunes(old)) - start

\* spliceText: the len broadcast for a trimmed splice, len(old[start:])
overflowLen(old, start) == Len(old) - start

\* a validation that lets the empty splice through
validateSpliceNoNoop(p, req) ==
    IF \/ req.start > MaxLenBody
       \/ req.len > MaxLenBody
       \/ req.start + req.len > p.len
    THEN errInvalidSpliceCoords
    ELSE IF Len(req.text) > MaxLenBody THEN errSpliceTooLong
    ELSE errNone

\* the validation switch of Client.spliceText: the error it returns, errNone
\* when the request passes
validateSplice(p, req) ==
    IF \/ req.start > MaxLenBody
       \/ req.len > MaxLenBody
       \/ req.start + req.len > p.len
    THEN errInvalidSpliceCoords
    ELSE IF req.len = 0 /\ Len(req.text) = 0 THEN errSpliceNOOP
    ELSE IF Len(req.text) > MaxLenBody THEN errSpliceTooLong
    ELSE errNone

\* Client.spliceText; data = [ok, req]: whether the frame decodes and the
\* spliceRequest it carries (Text as runes)
spliceText(p, data) ==
    LET hp == hasPost(p)
        req == data.req
    IN
    IF hp[2] # errNone THEN Ret(p, hp[2])
    ELSE IF ~hp[1] THEN Ret(p, errNone)
    ELSE IF ~data.ok THEN Ret(p, errDecode)
    ELSE IF ~IsPrintableRunes(req.text, TRUE) THEN Ret(p, errNotPrintable)
    ELSE IF validateSplice(p, req) # errNone THEN Ret(p, validateSplice(p, req))
    ELSE IF \E i \in 1..Len(req.text) : req.text[i] = NUL THEN Ret(p, ErrContainsNull)
    ELSE
      LET old == DecodeRunes(p.body)
          end0 == req.text \o SubSeq(old, req.start + req.len + 1, Len(old))
          len0 == p.len - req.len + Len(req.text)
          exceeding == len0 - MaxLenBody
          end == trimEnd(end0, exceeding)
          res == IF exceeding > 0
                 THEN [type |-> "Splice", id |-> p.id, start |-> req.start,
                       len |-> overflowLen(old, req.start), text |-> EncodeRunes(end)]
                 ELSE [type |-> "Splice", id |-> p.id, start |-> req.start,
                       len |-> req.len, text |-> EncodeRunes(req.text)]
          len1 == IF exceeding > 0 THEN MaxLenBody ELSE len0
          body1 == SubSeq(p.body, 1, byteStartPos(old, req.start)) \o EncodeRunes(end)
          p1 == countLines([p EXCEPT !.len = len1, !.body = body1])
      IN IF p1.lines > MaxLinesBody THEN Ret(p1, errTooManyLines)
         ELSE Upd(p1, res, Len(res.text) + 1)

\* Client.updateBody: mirror and broadcast first, then the spam score, then
\* the Store write, whose error is what the handler returns
updateBody(p, msg, n, dbOk) ==
    [mirror |-> [openBodies EXCEPT ![p.id] = p.body],
     sent   |-> <<msg>>,
     spam   |-> spamScore + n * CharScore,
     db     |-> IF dbOk THEN [dbOpenBody EXCEPT ![p.id] = p.body] ELSE dbOpenBody,
     err    |-> IF dbOk THEN errNone ELSE errDB]

\* parser.ApplyFilters with the board's word filter installed: every 'a'
\* becomes U+00E9
ApplyFilters(body) ==
    LET rs == DecodeRunes(body) IN
    EncodeRunes([i \in 1..Len(rs) |-> IF rs[i] = 97 THEN 233 ELSE rs[i]])

\* "#steal"
StealTag == <<35, 115, 116, 101, 97, 108>>

\* Client.closePost with a post open.  in = [handled, filter, parseOk, links, transfer, dbOk]:
\* RegisterFilter's answer, whether the board has a filter, ParseBody's
\* outcome and links, db.TransferImage's outcome ("err", "none", "img"), and
\* whether db.ClosePost commits.
\* Returns the openPost left, the error, the messages handed to the feed by
\* the client, the body handed to the mirror (Absent when none), the spam
\* added, the post robbed (0 when none) and whether db.ClosePost committed.
closePostOpen(p, in) ==
    LET Fail(q, e, msgs, mir, sp, from) ==
            [post |-> q, err |-> e, sent |-> msgs, mirror |-> mir, spam |-> sp,
             from |-> from, closed |-> FALSE, body |-> q.body]
        filtered == IF p.len # 0 /\ ~in.handled /\ in.filter
                    THEN ApplyFilters(p.body) ELSE p.body
        modified == filtered # p.body
        p1 == [p EXCEPT !.body = filtered]
        spliceMsg == [type |-> "Splice", id |-> p.id, start |-> 0,
                      len |-> Len(p.body), text |-> filtered]
        sent1 == IF modified THEN <<spliceMsg>> ELSE <<>>
        mir1 == IF modified THEN filtered ELSE Absent
        links == IF p.len # 0 THEN in.links ELSE <<>>
        steals == /\ p.len # 0
                  /\ p1.board = "a"
                  /\ Len(links) # 0
                  /\ Contains(p1.body, StealTag)
        from == IF steals THEN links[Len(links)] ELSE 0
        got == steals /\ in.transfer = "img"
        sent2 == IF got
                 THEN sent1 \o <<[type |-> "StoleImageFrom", id |-> from],
                                 [type |-> "StoleImageTo", id |-> p.id]>>
                 ELSE sent1
        sp == IF got THEN ImageScore ELSE 0
    IN
    IF p.len # 0 /\ ~in.parseOk THEN Fail(p1, errDecode, sent1, mir1, 0, 0)
    ELSE IF steals /\ in.transfer = "err" THEN Fail(p1, errDB, sent1, mir1, 0, 0)
    ELSE IF ~in.dbOk THEN Fail(p1, errDB, sent2, mir1, sp, IF got THEN from ELSE 0)
    ELSE [post |-> NoPost, err |-> errNone, sent |-> sent2, mirror |-> mir1,
          spam |-> sp, from |-> IF got THEN from ELSE 0, closed |-> TRUE,
          body |-> p1.body]

\* db.TransferImage: the image of post from moves to post to
TransferImage(img, from, to) ==
    IF from = 0 \/ from = to \/ from \notin DOMAIN img THEN img
    ELSE [img EXCEPT ![to] = img[from], ![from] = "none"]

\* Client.hasImage: db.HasImage, and the spoiler flag is cleared when the
\* post has no image; <<has, post>>
hasImage(p, img) ==
    LET has == img[p.id] # "none" IN
    <<has, IF has THEN p ELSE [p EXCEPT !.isSpoilered = FALSE]>>


\* the Subscription refuses writes until a captcha is solved once the spam
\* score has crossed the threshold
CanWrite == spamScore <= MaxSpam

NoMsg == [kind |-> "none", ok |-> TRUE, req |-> NoReq]
Idle == [op |-> "idle", err |-> errNone, sent |-> <<>>]
Result(opname, e, msgs) == [op |-> opname, err |-> e, sent |-> msgs]

\* splice texts a client sends: every text of up to two typeable runes, a
\* text with NUL, one with a control character, and one that is too long
SpliceTexts ==
    UNION {[1..n -> GoodRunes] : n \in 0..2}
        \cup {<<NUL>>, <<7>>, [i \in 1..(MaxLenBody + 1) |-> 97]}

\* the lines counter is explored up to this value
LinesCap == MaxLinesBody + 2

\* the frames a client sends: append and splice requests over the given
\* texts, the requests without payload, and frames that do not decode
SpliceFrames(texts) ==
    {[kind |-> "spliceText", ok |-> TRUE, req |-> [start |-> s, len |-> l, text |-> t]] :
        s \in 0..(MaxLenBody + 1), l \in 0..(MaxLenBody + 1), t \in texts}

TextFrames(runes, texts) ==
    {[kind |-> "appendRune", ok |-> TRUE, req |-> [start |-> 0, len |-> 0, text |-> <<c>>]] :
        c \in runes}
    \cup SpliceFrames(texts)
    \cup {[kind |-> k, ok |-> TRUE, req |-> NoReq] : k \in {"backspace", "closePost"}}
    \cup {[kind |-> k, ok |-> FALSE, req |-> NoReq] : k \in {"appendRune", "spliceText"}}

ImageFrames ==
    {[kind |-> k, ok |-> TRUE, req |-> NoReq] : k \in {"insertImage", "spoilerImage"}}
    \cup {[kind |-> "insertImage", ok |-> FALSE, req |-> NoReq]}

\* the reader task takes the next frame off the websocket
Receive(frames) ==
    /\ inbox = NoMsg
    /\ UNCHANGED dbVars
    /\ out = Idle
    /\ CanWrite
    /\ \E m \in frames :
        /\ appendRune(post, [ok |-> TRUE, char |-> NL]).post.lines <= LinesCap
           \/ m.kind # "appendRune"
        /\ inbox' = m
    /\ UNCHANGED <<post, openBodies, dbOpenBody, dbBody, dbImage, spamScore, out>>

\* the handler's error (or success) is written back to the client
Reply ==
    /\ out # Idle
    /\ UNCHANGED dbVars
    /\ out' = Idle
    /\ UNCHANGED <<post, openBodies, dbOpenBody, dbBody, dbImage, spamScore, inbox>>

\* a text handler's core result applied to the state
ApplyText(opname, r, dbOk) ==
    /\ post' = r.post
    /\ UNCHANGED dbVars
    /\ inbox' = NoMsg
    /\ IF r.upd
       THEN LET u == updateBody(r.post, r.msg, r.n, dbOk) IN
            /\ openBodies' = u.mirror
            /\ spamScore' = u.spam
            /\ dbOpenBody' = u.db
            /\ out' = Result(opname, u.err, u.sent)
       ELSE /\ UNCHANGED <<openBodies, spamScore, dbOpenBody>>
            /\ out' = Result(opname, r.err, <<>>)
    /\ UNCHANGED <<dbBody, dbImage>>

AppendRune(dbOks) ==
    /\ inbox.kind = "appendRune"
    /\ LET r == appendRune(post, [ok |-> inbox.ok,
                                  char |-> IF inbox.ok THEN inbox.req.text[1] ELSE NUL])
       IN \E dbOk \in (IF r.upd THEN dbOks ELSE {TRUE}) :
            ApplyText("appendRune", r, dbOk)

Backspace(dbOks) ==
    /\ inbox.kind = "backspace"
    /\ LET r == backspace(post)
       IN \E dbOk \in (IF r.upd THEN dbOks ELSE {TRUE}) :
            ApplyText("backspace", r, dbOk)

SpliceText(dbOks) ==
    /\ inbox.kind = "spliceText"
    /\ LET r == spliceText(post, [ok |-> inbox.ok, req |-> inbox.req])
       IN \E dbOk \in (IF r.upd THEN dbOks ELSE {TRUE}) :
            ApplyText("spliceText", r, dbOk)

\* a closePost that does not look whether a post is open
closePostUnguarded(p, in) == closePostOpen(p, in)

\* a closePost that keeps the openPost after db.ClosePost has committed
closePostKeepsPost(p, in) ==
    IF p.id = 0
    THEN [post |-> p, err |-> errNoPostOpen, sent |-> <<>>, mirror |-> Absent,
          spam |-> 0, from |-> 0, closed |-> FALSE, body |-> p.body]
    ELSE [closePostOpen(p, in) EXCEPT !.post = [p EXCEPT !.body = closePostOpen(p, in).body]]

\* a closePost that steals from the first linked post
closePostFirstLink(p, in) ==
    IF p.id = 0
    THEN [post |-> p, err |-> errNoPostOpen, sent |-> <<>>, mirror |-> Absent,
          spam |-> 0, from |-> 0, closed |-> FALSE, body |-> p.body]
    ELSE closePostOpen(p, [in EXCEPT !.links = IF @ = <<>> THEN @ ELSE <<Head(@)>>])

\* Client.closePost: errNoPostOpen without an open post
closePost(p, in) ==
    IF p.id = 0
    THEN [post |-> p, err |-> errNoPostOpen, sent |-> <<>>, mirror |-> Absent,
          spam |-> 0, from |-> 0, closed |-> FALSE, body |-> p.body]
    ELSE closePostOpen(p, in)

CloseInputs(dbOks) ==
    [handled : BOOLEAN, filter : BOOLEAN, parseOk : dbOks,
     links : {<<>>} \cup {<<n>> : n \in PostIDs} \cup [1..2 -> PostIDs],
     transfer : {"err", "none", "img"}, dbOk : dbOks]

ClosePost(dbOks) ==
    /\ inbox.kind = "closePost"
    /\ UNCHANGED dbVars
    /\ inbox' = NoMsg
    /\ \E in \in CloseInputs(dbOks) :
        LET r == closePost(post, in)
            id == post.id
            mir == IF r.mirror # Absent
                   THEN [openBodies EXCEPT ![id] = r.mirror] ELSE openBodies
        IN
        /\ r.from # 0 => dbImage[r.from] # "none"
        /\ post' = r.post
        /\ spamScore' = spamScore + r.spam
        /\ dbImage' = TransferImage(dbImage, r.from, id)
        /\ IF r.closed
           THEN /\ dbBody' = [dbBody EXCEPT ![id] = r.body]
                /\ dbOpenBody' = [dbOpenBody EXCEPT ![id] = Absent]
                /\ openBodies' = [mir EXCEPT ![id] = Absent]
                /\ out' = Result("closePost", r.err,
                                 r.sent \o <<[type |-> "ClosePost", id |-> id]>>)
           ELSE /\ openBodies' = mir
                /\ UNCHANGED <<dbBody, dbOpenBody>>
                /\ out' = Result("closePost", r.err, r.sent)

\* Client.insertImage.  in = [hasOk, spoiler, txOk]: whether db.HasImage
\* answers, the request's spoiler flag, and whether the db.InsertImage
\* transaction commits.
InsertImage ==
    /\ inbox.kind = "insertImage"
    /\ UNCHANGED dbVars
    /\ inbox' = NoMsg
    /\ \E in \in [hasOk : BOOLEAN, spoiler : BOOLEAN, txOk : BOOLEAN] :
        LET hp == hasPost(post)
            Done(p, e, img, msgs) ==
                /\ post' = p
                /\ dbImage' = img
                /\ out' = Result("insertImage", e, msgs)
        IN
        /\ spamScore' = spamScore + CharScore
        /\ UNCHANGED <<openBodies, dbOpenBody, dbBody>>
        /\ IF hp[2] # errNone THEN Done(post, hp[2], dbImage, <<>>)
           ELSE IF ~hp[1] THEN Done(post, errNoPostOpen, dbImage, <<>>)
           ELSE IF ~in.hasOk THEN Done(post, errDB, dbImage, <<>>)
           ELSE LET hi == hasImage(post, dbImage) IN
                IF hi[1] THEN Done(hi[2], errNone, dbImage, <<>>)
                ELSE IF ~inbox.ok THEN Done(hi[2], errDecode, dbImage, <<>>)
                ELSE IF TextOnly(post.board) THEN Done(hi[2], errTextOnly, dbImage, <<>>)
                ELSE IF ~in.txOk THEN Done(hi[2], errDB, dbImage, <<>>)
                ELSE Done([hi[2] EXCEPT !.isSpoilered = in.spoiler], errNone,
                          [dbImage EXCEPT ![post.id] =
                              IF in.spoiler THEN "spoiler" ELSE "plain"],
                          <<[type |-> "InsertImage", id |-> post.id,
                             spoiler |-> in.spoiler]>>)

\* Client.spoilerImage.  in = [hasOk, dbOk]: whether db.HasImage answers and
\* whether db.SpoilerImage commits.
SpoilerImage ==
    /\ inbox.kind = "spoilerImage"
    /\ UNCHANGED dbVars
    /\ inbox' = NoMsg
    /\ \E in \in [hasOk : BOOLEAN, dbOk : BOOLEAN] :
        LET hp == hasPost(post)
            Done(p, e, img, msgs) ==
                /\ post' = p
                /\ dbImage' = img
                /\ out' = Result("spoilerImage", e, msgs)
        IN
        /\ spamScore' = spamScore + CharScore
        /\ UNCHANGED <<openBodies, dbOpenBody, dbBody>>
        /\ IF hp[2] # errNone THEN Done(post, hp[2], dbImage, <<>>)
           ELSE IF ~hp[1] THEN Done(post, errNoPostOpen, dbImage, <<>>)
           ELSE IF ~in.hasOk THEN Done(post, errDB, dbImage, <<>>)
           ELSE LET hi == hasImage(post, dbImage) IN
                IF ~hi[1] THEN Done(hi[2], errNoImage, dbImage, <<>>)
                ELSE IF hi[2].isSpoilered THEN Done(hi[2], errNone, dbImage, <<>>)
                ELSE IF ~in.dbOk THEN Done(hi[2], errDB, dbImage, <<>>)
                ELSE Done(hi[2], errNone, [dbImage EXCEPT ![post.id] = "spoiler"],
                          <<[type |-> "Spoiler", id |-> post.id]>>)

\* post creation: the client opens a post on a board; the post becomes
\* visible with an empty open body
OpenPost(boards) ==
    /\ inbox = NoMsg
    /\ UNCHANGED dbVars
    /\ out = Idle
    /\ CanWrite
    /\ post.id = 0
    /\ dbOpenBody[1] = Absent
    /\ dbBody[1] = Absent
    /\ \E board \in boards :
        LET id == 1 IN
        /\ post' = [NoPost EXCEPT !.id = id, !.op = 1, !.board = board]
        /\ openBodies' = [openBodies EXCEPT ![id] = <<>>]
        /\ dbOpenBody' = [dbOpenBody EXCEPT ![id] = <<>>]
        /\ UNCHANGED <<dbBody, dbImage, spamScore, inbox, out>>

\* the client solves the captcha it was asked for
SolveCaptcha ==
    /\ inbox = NoMsg
    /\ UNCHANGED dbVars
    /\ out = Idle
    /\ ~CanWrite
    /\ spamScore' = 0
    /\ UNCHANGED <<post, openBodies, dbOpenBody, dbBody, dbImage, inbox, out>>

GoInit ==
    /\ post = NoPost
    /\ openBodies = [n \in PostIDs |-> Absent]
    /\ dbOpenBody = [n \in PostIDs |-> Absent]
    /\ dbBody = [n \in PostIDs |-> Absent]
    /\ dbImage = [n \in PostIDs |-> "none"]
    /\ spamScore = 0
    /\ inbox = NoMsg
    /\ out = Idle

\* =================================================== src/server/db.js
\* posts allocated from postctr in a run
MaxPostCtr == 2
\* messages logged (over all threads) in a run
MaxHist == 3
\* the most remove_post calls one client makes
MaxDels == 1

\* message kinds of common.js
INSERT_POST == 2
UPDATE_POST == 3
FINISH_POST == 4
INSERT_IMAGE == 6

\* a key or a field that is not there
NoKey == <<"nil">>

\* ------------------------------------------------- strings (JavaScript)
\* a string is a sequence of one-character strings
DigitChars == <<"0", "1", "2", "3", "4", "5", "6", "7", "8", "9">>
IsDigit(c) == \E d \in 1..10 : DigitChars[d] = c
DigitOf(c) == (CHOOSE d \in 1..10 : DigitChars[d] = c) - 1

\* String(n) for a natural number
RECURSIVE NumStr(_)
NumStr(n) ==
    IF n < 10 THEN <<DigitChars[n + 1]>>
    ELSE NumStr(n \div 10) \o <<DigitChars[(n % 10) + 1]>>

\* JSON.stringify of a string without quotes or backslashes in it
JsonStr(cs) == <<"\"">> \o cs \o <<"\"">>

\* length of the run of digits at the front of a string
RECURSIVE DigitRun(_)
DigitRun(cs) ==
    IF cs # <<>> /\ IsDigit(Head(cs)) THEN 1 + DigitRun(Tail(cs)) ELSE 0

\* value of a sequence of digits
RECURSIVE DigitsValue(_)
DigitsValue(ds) ==
    IF ds = <<>> THEN 0
    ELSE DigitsValue(SubSeq(ds, 1, Len(ds) - 1)) * 10 + DigitOf(ds[Len(ds)])

\* parseInt: the number at the front of the string, NaN (-1) when there
\* is none
NaN == -1
parseInt(cs) ==
    LET n == DigitRun(cs) IN
    IF n = 0 THEN NaN ELSE DigitsValue(SubSeq(cs, 1, n))

\* index of the first c in cs at or after position from, 0 when none
FirstIndex(cs, c, from) ==
    IF \E i \in from..Len(cs) : cs[i] = c
    THEN CHOOSE i \in from..Len(cs) : cs[i] = c /\ \A j \in from..(i - 1) : cs[j] # c
    ELSE 0

\* msg.split(':', 2): at most the first two pieces
Split2(cs) ==
    LET i == FirstIndex(cs, ":", 1) IN
    IF i = 0 THEN <<cs>>
    ELSE LET j == FirstIndex(cs, ":", i + 1) IN
         <<SubSeq(cs, 1, i - 1),
           SubSeq(cs, i + 1, IF j = 0 THEN Len(cs) ELSE j - 1)>>

\* msg.match(/^(\d+),(\d+)/): <<kind, num>>, <<NaN, NaN>> when the message
\* does not match
MatchKindNum(cs) ==
    LET a == DigitRun(cs)
        rest == SubSeq(cs, a + 2, Len(cs))
        b == DigitRun(rest)
    IN IF a > 0 /\ Len(cs) > a /\ cs[a + 1] = "," /\ b > 0
       THEN <<DigitsValue(SubSeq(cs, 1, a)), DigitsValue(SubSeq(rest, 1, b))>>
       ELSE <<NaN, NaN>>

\* JSON.stringify of the image view of IU.publish; of its attributes the
\* MD5 is kept
ImageStr(md5) == <<"{", "\"", "M", "D", "5", "\"", ":">> \o JsonStr(md5) \o <<"}">>

\* JSON.stringify(view) of insert_post: time first, then ip, state, email,
\* op, imgctr, the denormalized body and the image extract_image has put
\* at the end
ViewStr(view) ==
    <<"{", "\"", "t", "i", "m", "e", "\"", ":">> \o NumStr(view.time)
    \o <<",", "\"", "i", "p", "\"", ":">> \o JsonStr(view.ip)
    \o <<",", "\"", "s", "t", "a", "t", "e", "\"", ":">> \o JsonStr(<<"0", ",", "0">>)
    \o (IF view.sage
        THEN <<",", "\"", "e", "m", "a", "i", "l", "\"", ":">>
             \o JsonStr(<<"s", "a", "g", "e">>)
        ELSE <<>>)
    \o (IF view.op # 0
        THEN <<",", "\"", "o", "p", "\"", ":">> \o NumStr(view.op)
        ELSE <<>>)
    \o (IF view.image # NoKey /\ view.op = 0
        THEN <<",", "\"", "i", "m", "g", "c", "t", "r", "\"", ":", "1">>
        ELSE <<>>)
    \o <<",", "\"", "b", "o", "d", "y", "\"", ":">> \o JsonStr(view.body)
    \o (IF view.image # NoKey
        THEN <<",", "\"", "i", "m", "a", "g", "e", "\"", ":">> \o ImageStr(view.image)
        ELSE <<>>)
    \o <<"}">>

\* the message _log builds: JSON.stringify([kind].concat(msg)).slice(1, -1)
LogMsg(kind, parts) ==
    LET RECURSIVE join(_)
        join(ps) == IF ps = <<>> THEN <<>> ELSE <<",">> \o Head(ps) \o join(Tail(ps))
    IN NumStr(kind) \o join(parts)

\* ------------------------------------------------ the store and its clients
Nums == 1..MaxPostCtr
Yakus == {1, 2}

\* the property name of an undefined value
Undefined == 0 - 2
\* the property names OPs can come to hold
OPKeys == Nums \cup {INSERT_POST, UPDATE_POST, FINISH_POST, INSERT_IMAGE, NaN}

NoHash == [exists |-> FALSE, op |-> 0, sage |-> FALSE, body |-> NoKey,
           image |-> NoKey, imgctr |-> 0]
NoSub == [up |-> FALSE, ready |-> FALSE, promises |-> {}, q |-> <<>>]
\* no remove_post of the Yakusoku is in flight
NoRemoval == [stage |-> "idle", num |-> 0, op |-> 0, body |-> NoKey]
NoYaku == [pstate |-> "none", num |-> 0, op |-> 0, body |-> <<>>, score |-> 0,
           phase |-> "idle", thread |-> 0, sync |-> 0, log |-> <<>>,
           upload |-> NoKey, image |-> NoKey, removal |-> NoRemoval, dels |-> <<>>]

\* the time and the address of a post, and what its author types
Times == {1000}
IPs == {<<"1">>}
Tails == {<<"a">>, <<":">> \o NumStr(INSERT_POST)}
\* the MD5 sums of the files clients upload
MD5s == {<<"c", "4">>, <<"d", "4">>}

RECURSIVE SumLen(_, _)
SumLen(h, S) ==
    IF S = {} THEN 0
    ELSE LET t == CHOOSE x \in S : TRUE IN Len(h[t]) + SumLen(h, S \ {t})

\* room in the histories for one more message
CanLog == SumLen(rHistory, Nums) < MaxHist

\* the thread a post is stored under
Owner(n) == IF rHash[n].op = 0 THEN n ELSE rHash[n].op

\* delete ops[key]
DeleteOP(ops, key) == [k \in OPKeys |-> IF k = key THEN 0 ELSE ops[k]]

\* a _log that queues no hincrby
logWithoutCounter(op, kind, msg) ==
    IF op = 0
    THEN [thrown |-> TRUE, key |-> 0, rpush |-> <<>>, hincrby |-> 0, publish |-> <<>>]
    ELSE [thrown |-> FALSE, key |-> op, rpush |-> LogMsg(kind, msg),
          hincrby |-> 0, publish |-> LogMsg(kind, msg)]

\* Yakusoku.prototype._log: throws without an op, else queues rpush,
\* hincrby and publish on the multi
_log(op, kind, msg) ==
    IF op = 0
    THEN [thrown |-> TRUE, key |-> 0, rpush |-> <<>>, hincrby |-> 0, publish |-> <<>>]
    ELSE [thrown |-> FALSE, key |-> op, rpush |-> LogMsg(kind, msg),
          hincrby |-> 1, publish |-> LogMsg(kind, msg)]

\* redis runs the three commands of _log inside the EXEC of the multi.
\* The message reaches the connection of the thread's Subscription, when
\* it is subscribed, and the connection of the OP tracker; ctr is the
\* index the entry took in the history.
ExecLog(lg) ==
    LET ctr == Len(rHistory[lg.key]) IN
    /\ rHistory' = [rHistory EXCEPT ![lg.key] = Append(@, lg.rpush)]
    /\ rHctr' = [rHctr EXCEPT ![lg.key] = @ + lg.hincrby]
    /\ SUBS' = [SUBS EXCEPT ![lg.key].q =
                    IF SUBS[lg.key].up /\ SUBS[lg.key].ready
                    THEN Append(@, [msg |-> lg.publish, ctr |-> ctr]) ELSE @]
    /\ opQ' = IF tracking
               THEN Append(opQ, [op |-> lg.key, msg |-> lg.publish, ctr |-> ctr])
               ELSE opQ

\* a reserve_post that hands out the last id again when no post was
\* inserted under it
ReservePostReusing(y, ops) ==
    /\ UNCHANGED goVars
    /\ yaku[y].pstate = "none"
    /\ rPostctr < MaxPostCtr
    /\ \E op \in ops :
        LET num == IF rPostctr > 0 /\ ~rHash[rPostctr].exists
                   THEN rPostctr ELSE rPostctr + 1
        IN
        /\ rPostctr' = num
        /\ OPs' = [OPs EXCEPT ![num] = IF op = 0 THEN num ELSE op]
        /\ yaku' = [yaku EXCEPT ![y] = [@ EXCEPT !.pstate = "reserved", !.num = num,
                                                 !.op = op, !.body = <<>>]]
    /\ UNCHANGED <<rHash, rBody, rPosts, rHistory, rHctr, rBumpctr, rThreads, rMD5s,
                   SUBS, tracking, opQ, seen>>

\* Yakusoku.prototype.reserve_post, with its callback
ReservePost(y, ops) ==
    /\ UNCHANGED goVars
    /\ yaku[y].pstate = "none"
    /\ rPostctr < MaxPostCtr
    /\ \E op \in ops :
        LET num == rPostctr + 1 IN
        /\ rPostctr' = num
        /\ OPs' = [OPs EXCEPT ![num] = IF op = 0 THEN num ELSE op]
        /\ yaku' = [yaku EXCEPT ![y] = [@ EXCEPT !.pstate = "reserved", !.num = num,
                                                 !.op = op, !.body = <<>>]]
    /\ UNCHANGED <<rHash, rBody, rPosts, rHistory, rHctr, rBumpctr, rThreads, rMD5s,
                   SUBS, tracking, opQ, seen>>

\* reserve_post(0) of a client on another process that shares the store:
\* the OPs its callback writes is the other process's
RemoteReserve(y) ==
    /\ UNCHANGED goVars
    /\ yaku[y].pstate = "none"
    /\ rPostctr < MaxPostCtr
    /\ rPostctr' = rPostctr + 1
    /\ yaku' = [yaku EXCEPT ![y] = [@ EXCEPT !.pstate = "reserved", !.num = rPostctr + 1,
                                             !.op = 0, !.body = <<>>]]
    /\ UNCHANGED <<rHash, rBody, rPosts, rHistory, rHctr, rBumpctr, rThreads, rMD5s,
                   OPs, SUBS, tracking, opQ, seen>>

\* Yakusoku.prototype.insert_post up to the callback of m.exec.  msg.image
\* is the image the client has uploaded for the post it allocates, if any.
InsertPost(y, sages, execOks) ==
    /\ UNCHANGED goVars
    /\ yaku[y].pstate = "reserved"
    /\ LET num == yaku[y].num
           op == yaku[y].op
           image == yaku[y].upload
       IN
       IF op # 0 /\ OPs[op] # op
       THEN \* 'Thread does not exist.': num is still undefined at the delete
            /\ OPs' = DeleteOP(OPs, Undefined)
            /\ yaku' = [yaku EXCEPT ![y] = [@ EXCEPT !.pstate = "none", !.num = 0, !.op = 0,
                                                     !.upload = NoKey]]
            /\ UNCHANGED <<rPostctr, rHash, rBody, rPosts, rHistory, rHctr, rBumpctr,
                           rThreads, rMD5s, SUBS, tracking, opQ, seen>>
       ELSE \E sage \in (IF op = 0 THEN {FALSE} ELSE sages), time \in Times,
               ip \in IPs, execOk \in execOks :
            LET thread == IF op = 0 THEN num ELSE op
                bump == op = 0 \/ ~sage
                body == <<>>
                view == [time |-> time, ip |-> ip, sage |-> sage, op |-> op, body |-> body,
                         image |-> image]
                hash == [exists |-> TRUE, op |-> op, sage |-> sage, body |-> NoKey,
                         image |-> image,
                         imgctr |-> IF image # NoKey /\ op = 0 THEN 1
                                    ELSE rHash[num].imgctr]
                hashes == [rHash EXCEPT ![num] = hash]
                lg == _log(thread, INSERT_POST, <<NumStr(num), ViewStr(view)>>)
            IN
            /\ CanLog
            /\ IF execOk
               THEN /\ rBumpctr' = IF bump THEN rBumpctr + 1 ELSE rBumpctr
                    /\ rHash' = IF image # NoKey /\ op # 0
                                THEN [hashes EXCEPT ![op].imgctr = @ + 1] ELSE hashes
                    /\ rMD5s' = IF image # NoKey THEN [rMD5s EXCEPT ![image] = num]
                                ELSE rMD5s
                    /\ rBody' = [rBody EXCEPT ![num] = body]
                    /\ rPosts' = IF op # 0 THEN [rPosts EXCEPT ![op] = Append(@, num)]
                                 ELSE rPosts
                    /\ ExecLog(lg)
                    /\ yaku' = [yaku EXCEPT ![y] =
                                   [@ EXCEPT !.pstate = IF bump THEN "bumping" ELSE "open",
                                             !.score = IF bump THEN rBumpctr + 1 ELSE 0,
                                             !.upload = NoKey, !.image = image]]
                    /\ UNCHANGED <<rPostctr, rThreads, OPs, tracking, seen>>
               ELSE /\ OPs' = DeleteOP(OPs, num)
                    /\ yaku' = [yaku EXCEPT ![y] = [@ EXCEPT !.pstate = "none", !.num = 0,
                                                             !.op = 0, !.upload = NoKey]]
                    /\ UNCHANGED <<rPostctr, rHash, rBody, rPosts, rHistory, rHctr,
                                   rBumpctr, rThreads, rMD5s, SUBS, tracking, opQ, seen>>

\* the zadd insert_post sends from the callback of m.exec, with its reply
Bump(y) ==
    /\ UNCHANGED goVars
    /\ yaku[y].pstate = "bumping"
    /\ LET thread == IF yaku[y].op = 0 THEN yaku[y].num ELSE yaku[y].op IN
       rThreads' = [rThreads EXCEPT ![thread] = yaku[y].score]
    /\ yaku' = [yaku EXCEPT ![y] = [@ EXCEPT !.pstate = "open", !.score = 0]]
    /\ UNCHANGED <<rPostctr, rHash, rBody, rPosts, rHistory, rHctr, rBumpctr,
                   rMD5s, OPs, SUBS, tracking, opQ, seen>>

\* Yakusoku.prototype.append_post, state and links unchanged
AppendPost(y, tails, execOks) ==
    /\ UNCHANGED goVars
    /\ yaku[y].pstate = "open"
    /\ \E tail \in tails, execOk \in execOks :
        LET num == yaku[y].num
            lg == _log(yaku[y].op, UPDATE_POST, <<NumStr(num), JsonStr(tail)>>)
        IN
        IF lg.thrown
        THEN /\ yaku' = [yaku EXCEPT ![y] = [@ EXCEPT !.pstate = "thrown"]]
             /\ UNCHANGED <<rPostctr, rHash, rBody, rPosts, rHistory, rHctr, rBumpctr,
                            rThreads, rMD5s, OPs, SUBS, tracking, opQ, seen>>
        ELSE /\ CanLog
             /\ IF execOk
                THEN /\ rBody' = [rBody EXCEPT ![num] = IF @ = NoKey THEN tail ELSE @ \o tail]
                     /\ ExecLog(lg)
                     /\ yaku' = [yaku EXCEPT ![y] = [@ EXCEPT !.body = @ \o tail]]
                     /\ UNCHANGED <<rPostctr, rHash, rPosts, rBumpctr, rThreads, rMD5s, OPs,
                                    tracking, seen>>
                ELSE UNCHANGED dbVars

\* Yakusoku.prototype.finish_post with finish_off
FinishPost(y, execOks) ==
    /\ UNCHANGED goVars
    /\ yaku[y].pstate = "open"
    /\ \E execOk \in execOks :
        LET num == yaku[y].num
            lg == _log(yaku[y].op, FINISH_POST, <<NumStr(num)>>)
        IN
        IF lg.thrown
        THEN /\ yaku' = [yaku EXCEPT ![y] = [@ EXCEPT !.pstate = "thrown"]]
             /\ UNCHANGED <<rPostctr, rHash, rBody, rPosts, rHistory, rHctr, rBumpctr,
                            rThreads, rMD5s, OPs, SUBS, tracking, opQ, seen>>
        ELSE /\ CanLog
             /\ IF execOk
                THEN /\ rHash' = [rHash EXCEPT ![num].exists = TRUE, ![num].body = yaku[y].body]
                     /\ rBody' = [rBody EXCEPT ![num] = NoKey]
                     /\ ExecLog(lg)
                     /\ yaku' = [yaku EXCEPT ![y] = [@ EXCEPT !.pstate = "none", !.num = 0,
                                                              !.op = 0, !.body = <<>>,
                                                              !.image = NoKey]]
                     /\ UNCHANGED <<rPostctr, rPosts, rBumpctr, rThreads, rMD5s, OPs,
                                    tracking, seen>>
                ELSE UNCHANGED dbVars

\* IU.parse_form and IU.process up to the reply of check_duplicate: a
\* client that is not uploading and whose post has no image uploads a
\* file with one of md5s
CheckDuplicate(y, md5s) ==
    /\ UNCHANGED goVars
    /\ yaku[y].pstate \in {"none", "open"}
    /\ yaku[y].upload = NoKey
    /\ yaku[y].image = NoKey
    /\ \E md5 \in md5s :
        yaku' = [yaku EXCEPT ![y] =
                    [@ EXCEPT !.upload = IF rMD5s[md5] # 0 THEN NoKey ELSE md5]]
    /\ UNCHANGED <<rPostctr, rHash, rBody, rPosts, rHistory, rHctr, rBumpctr, rThreads,
                   rMD5s, OPs, SUBS, tracking, opQ, seen>>

\* IU.publish for a client with a post, and Yakusoku.prototype.add_image
AddImage(y, execOks) ==
    /\ UNCHANGED goVars
    /\ yaku[y].pstate = "open"
    /\ yaku[y].upload # NoKey
    /\ LET num == yaku[y].num
           op == yaku[y].op
           image == yaku[y].upload
           Failure ==
               /\ yaku' = [yaku EXCEPT ![y] = [@ EXCEPT !.upload = NoKey]]
               /\ UNCHANGED <<rPostctr, rHash, rBody, rPosts, rHistory, rHctr, rBumpctr,
                              rThreads, rMD5s, OPs, SUBS, tracking, opQ, seen>>
       IN
       IF op = 0 \/ ~rHash[num].exists
       THEN Failure
       ELSE \E execOk \in execOks :
            /\ CanLog
            /\ IF execOk
               THEN /\ ExecLog(_log(op, INSERT_IMAGE, <<NumStr(num), ImageStr(image)>>))
                    /\ rHash' = [[rHash EXCEPT ![num].image = image]
                                    EXCEPT ![op].imgctr = @ + 1]
                    /\ rMD5s' = [rMD5s EXCEPT ![image] = num]
                    /\ yaku' = [yaku EXCEPT ![y] = [@ EXCEPT !.upload = NoKey,
                                                             !.image = image]]
                    /\ UNCHANGED <<rPostctr, rBody, rPosts, rBumpctr, rThreads, OPs,
                                   tracking, seen>>
               ELSE Failure

\* Yakusoku.prototype.disconnect: the client is gone and its post stays
\* as it is in the store
Disconnect(y) ==
    /\ UNCHANGED goVars
    /\ yaku[y].pstate \in {"open", "thrown"}
    /\ yaku' = [yaku EXCEPT ![y] = [@ EXCEPT !.pstate = "none", !.num = 0, !.op = 0,
                                             !.body = <<>>, !.image = NoKey,
                                             !.upload = NoKey]]
    /\ UNCHANGED <<rPostctr, rHash, rBody, rPosts, rHistory, rHctr, rBumpctr, rThreads, rMD5s,
                   OPs, SUBS, tracking, opQ, seen>>

\* redis LREM key -1 x: the list without the last occurrence of x
lrem(list, x) ==
    LET at == {i \in 1..Len(list) : list[i] = x} IN
    IF at = {} THEN list
    ELSE LET last == CHOOSE i \in at : \A j \in at : j <= i IN
         SubSeq(list, 1, last - 1) \o SubSeq(list, last + 1, Len(list))

\* what the callback of remove_post(arg) is called with: callback(err),
\* callback(null, -num) or callback(null, [op, num])
DelErr(arg, msg) == [arg |-> arg, err |-> msg, op |-> 0, num |-> 0]
DelGone(num) == [arg |-> num, err |-> "", op |-> 0, num |-> 0 - num]
DelDone(op, num) == [arg |-> num, err |-> "", op |-> op, num |-> num]

\* remove_post that goes by OPs alone and ignores the count lrem replies
RemovePostAnyCount(y, nums) ==
    /\ UNCHANGED goVars
    /\ yaku[y].removal.stage = "idle"
    /\ Len(yaku[y].dels) < MaxDels
    /\ \E num \in nums :
        LET op == OPs[num] IN
        IF op = 0
        THEN /\ yaku' = [yaku EXCEPT ![y].dels = Append(@, DelErr(num, "No such post."))]
             /\ UNCHANGED rPosts
        ELSE IF op = num
        THEN /\ yaku' = [yaku EXCEPT ![y].dels =
                            Append(@, DelErr(num, "Thread deletion not supported yet."))]
             /\ UNCHANGED rPosts
        ELSE /\ rPosts' = [rPosts EXCEPT ![op] = lrem(@, num)]
             /\ yaku' = [yaku EXCEPT ![y].removal =
                            [stage |-> "hide", num |-> num, op |-> op, body |-> NoKey]]
    /\ UNCHANGED <<rPostctr, rHash, rBody, rHistory, rHctr, rBumpctr, rThreads, rMD5s,
                   OPs, SUBS, tracking, opQ, seen>>

\* Yakusoku.prototype.remove_post up to the reply of lrem, for a post of
\* nums; dels collects what the callback is called with.  A post that OPs
\* does not hold, or files under itself, is refused before anything is
\* sent.  Otherwise the post leaves the thread's list: when it was in it
\* gone_from_thread sends hset, and when it was not the callback is called
\* with -num
RemovePost(y, nums) ==
    /\ UNCHANGED goVars
    /\ yaku[y].removal.stage = "idle"
    /\ Len(yaku[y].dels) < MaxDels
    /\ \E num \in nums :
        LET op == OPs[num] IN
        IF op = 0
        THEN /\ yaku' = [yaku EXCEPT ![y].dels = Append(@, DelErr(num, "No such post."))]
             /\ UNCHANGED rPosts
        ELSE IF op = num
        THEN /\ yaku' = [yaku EXCEPT ![y].dels =
                            Append(@, DelErr(num, "Thread deletion not supported yet."))]
             /\ UNCHANGED rPosts
        ELSE /\ rPosts' = [rPosts EXCEPT ![op] = lrem(@, num)]
             /\ yaku' = IF rPosts'[op] # rPosts[op]
                        THEN [yaku EXCEPT ![y].removal =
                                 [stage |-> "hide", num |-> num, op |-> op, body |-> NoKey]]
                        ELSE [yaku EXCEPT ![y].dels = Append(@, DelGone(num))]
    /\ UNCHANGED <<rPostctr, rHash, rBody, rHistory, rHctr, rBumpctr, rThreads, rMD5s,
                   OPs, SUBS, tracking, opQ, seen>>

\* remove_post, the reply of hset 'hide': the post leaves OPs, the caller
\* is answered with [op, num], and get is sent for the open body
RemoveHidden(y) ==
    /\ UNCHANGED goVars
    /\ yaku[y].removal.stage = "hide"
    /\ OPs' = DeleteOP(OPs, yaku[y].removal.num)
    /\ yaku' = [yaku EXCEPT ![y].removal.stage = "get",
                            ![y].dels = Append(@, DelDone(yaku[y].removal.op,
                                                          yaku[y].removal.num))]
    /\ UNCHANGED <<rPostctr, rHash, rBody, rPosts, rHistory, rHctr, rBumpctr, rThreads,
                   rMD5s, SUBS, tracking, opQ, seen>>

\* remove_post, the reply of get: the body read is queued with finish_off
RemoveGot(y) ==
    /\ UNCHANGED goVars
    /\ yaku[y].removal.stage = "get"
    /\ yaku' = [yaku EXCEPT ![y].removal.stage = "finish",
                            ![y].removal.body = rBody[yaku[y].removal.num]]
    /\ UNCHANGED <<rPostctr, rHash, rBody, rPosts, rHistory, rHctr, rBumpctr, rThreads,
                   rMD5s, OPs, SUBS, tracking, opQ, seen>>

\* remove_post, the exec of finish_off in the background: the body read
\* becomes the post's body and the open-body key is deleted
RemoveFinish(y) ==
    /\ UNCHANGED goVars
    /\ yaku[y].removal.stage = "finish"
    /\ LET num == yaku[y].removal.num IN
       /\ rHash' = [rHash EXCEPT ![num].body = yaku[y].removal.body]
       /\ rBody' = [rBody EXCEPT ![num] = NoKey]
    /\ yaku' = [yaku EXCEPT ![y].removal = NoRemoval]
    /\ UNCHANGED <<rPostctr, rPosts, rHistory, rHctr, rBumpctr, rThreads, rMD5s,
                   OPs, SUBS, tracking, opQ, seen>>

\* Yakusoku.prototype.kiku for one thread, with the client's cursor (one
\* of cursors, and no more than the thread's counter):
\* Subscription is constructed when SUBS has none, then promise_to and
\* when_ready
Kiku(y, threads, cursors) ==
    /\ UNCHANGED goVars
    /\ yaku[y].phase = "idle"
    /\ \E thread \in threads :
       \E sync \in (0..rHctr[thread]) \cap cursors :
        LET sub == IF SUBS[thread].up THEN SUBS[thread]
                   ELSE [NoSub EXCEPT !.up = TRUE]
        IN
        /\ SUBS' = [SUBS EXCEPT ![thread] = [sub EXCEPT !.promises = @ \cup {y}]]
        /\ yaku' = [yaku EXCEPT ![y] =
                       [@ EXCEPT !.phase = IF sub.ready THEN "listening" ELSE "waiting",
                                 !.thread = thread, !.sync = sync]]
        /\ seen' = [seen EXCEPT ![y] = <<>>]
    /\ UNCHANGED <<rPostctr, rHash, rBody, rPosts, rHistory, rHctr, rBumpctr, rThreads, rMD5s,
                   OPs, tracking, opQ>>

\* Subscription.prototype.on_sub: redis has subscribed the connection;
\* the callbacks of when_ready run
OnSub(thread) ==
    /\ UNCHANGED goVars
    /\ SUBS[thread].up
    /\ ~SUBS[thread].ready
    /\ SUBS' = [SUBS EXCEPT ![thread].ready = TRUE]
    /\ yaku' = [y \in Yakus |->
                   IF yaku[y].phase = "waiting" /\ yaku[y].thread = thread
                   THEN [yaku[y] EXCEPT !.phase = "listening"] ELSE yaku[y]]
    /\ UNCHANGED <<rPostctr, rHash, rBody, rPosts, rHistory, rHctr, rBumpctr, rThreads, rMD5s,
                   OPs, tracking, opQ, seen>>

\* Yakusoku.prototype.kikanai with break_promise and seppuku
Kikanai(y) ==
    /\ UNCHANGED goVars
    /\ yaku[y].phase \in {"listening", "synced"}
    /\ LET thread == yaku[y].thread
           sub == SUBS[thread]
           left == sub.promises \ {y}
       IN SUBS' = [SUBS EXCEPT ![thread] =
                      IF ~sub.up THEN sub
                      ELSE IF left = {} THEN NoSub
                      ELSE [sub EXCEPT !.promises = left]]
    /\ yaku' = [yaku EXCEPT ![y] = [@ EXCEPT !.phase = "idle", !.thread = 0, !.sync = 0]]
    /\ seen' = [seen EXCEPT ![y] = <<>>]
    /\ UNCHANGED <<rPostctr, rHash, rBody, rPosts, rHistory, rHctr, rBumpctr, rThreads, rMD5s,
                   OPs, tracking, opQ>>

\* Yakusoku.prototype.fetch_backlogs: redis answers the lrange
FetchBacklogs(y) ==
    /\ UNCHANGED goVars
    /\ yaku[y].phase = "listening"
    /\ LET h == rHistory[yaku[y].thread] IN
       yaku' = [yaku EXCEPT ![y] = [@ EXCEPT !.phase = "fetching",
                                             !.log = SubSeq(h, yaku[y].sync + 1, Len(h))]]
    /\ UNCHANGED <<rPostctr, rHash, rBody, rPosts, rHistory, rHctr, rBumpctr, rThreads, rMD5s,
                   OPs, SUBS, tracking, opQ, seen>>

\* the callback of fetch_backlogs hands the combined log to the caller
GotBacklogs(y) ==
    /\ UNCHANGED goVars
    /\ yaku[y].phase = "fetching"
    /\ seen' = [seen EXCEPT ![y] =
                   @ \o [i \in 1..Len(yaku[y].log) |->
                            [live |-> FALSE, ctr |-> yaku[y].sync + i - 1,
                             msg |-> yaku[y].log[i]]]]
    /\ yaku' = [yaku EXCEPT ![y] = [@ EXCEPT !.phase = "synced", !.log = <<>>]]
    /\ UNCHANGED <<rPostctr, rHash, rBody, rPosts, rHistory, rHctr, rBumpctr, rThreads, rMD5s,
                   OPs, SUBS, tracking, opQ>>

\* an on_message that calls on_update of one promise only
RecipientsFirst(promises) ==
    IF promises = {} THEN {}
    ELSE {CHOOSE y \in promises : \A z \in promises : y <= z}

\* Subscription.prototype.on_message: "for (var id in this.promises)"
Recipients(promises) == promises

\* Subscription.prototype.on_message: the connection of the Subscription
\* delivers its next message
OnMessage(thread) ==
    /\ UNCHANGED goVars
    /\ SUBS[thread].up
    /\ SUBS[thread].ready
    /\ SUBS[thread].q # <<>>
    /\ LET m == Head(SUBS[thread].q)
           info == MatchKindNum(m.msg)
       IN
       /\ SUBS' = [SUBS EXCEPT ![thread].q = Tail(@)]
       /\ seen' = [y \in Yakus |->
                      IF info[1] # NaN /\ y \in Recipients(SUBS[thread].promises)
                      THEN Append(seen[y], [live |-> TRUE, ctr |-> m.ctr, msg |-> m.msg])
                      ELSE seen[y]]
    /\ UNCHANGED <<rPostctr, rHash, rBody, rPosts, rHistory, rHctr, rBumpctr, rThreads, rMD5s,
                   OPs, tracking, opQ, yaku>>

\* on_OP_message: the tracker's connection delivers its next message
OnOPMessage ==
    /\ UNCHANGED goVars
    /\ opQ # <<>>
    /\ LET m == Head(opQ)
           op == m.op
           info == Split2(m.msg)
           num == parseInt(info[1])
           kind == IF Len(info) > 1 THEN parseInt(info[2]) ELSE NaN
       IN OPs' = IF kind = INSERT_POST THEN [OPs EXCEPT ![num] = op] ELSE OPs
    /\ opQ' = Tail(opQ)
    /\ UNCHANGED tracking
    /\ UNCHANGED <<rPostctr, rHash, rBody, rPosts, rHistory, rHctr, rBumpctr, rThreads, rMD5s,
                   SUBS, yaku, seen>>

\* the process has started on an empty store; track says whether it
\* has called track_OPs
DBInit(track) ==
    /\ tracking = track
    /\ rPostctr = 0
    /\ rHash = [n \in Nums |-> NoHash]
    /\ rBody = [n \in Nums |-> NoKey]
    /\ rPosts = [n \in Nums |-> <<>>]
    /\ rHistory = [n \in Nums |-> <<>>]
    /\ rHctr = [n \in Nums |-> 0]
    /\ rBumpctr = 0
    /\ rThreads = [n \in Nums |-> 0]
    /\ rMD5s = [m \in MD5s |-> 0]
    /\ OPs = [k \in OPKeys |-> 0]
    /\ SUBS = [n \in Nums |-> NoSub]
    /\ opQ = <<>>
    /\ yaku = [y \in Yakus |-> NoYaku]
    /\ seen = [y \in Yakus |-> <<>>]

vars == <<goVars, dbVars>>

Init == GoInit /\ DBInit(TRUE)

\* the text protocol of one client on an image board, with every splice
\* text, and a Store that answers
Next ==
    \/ Receive(TextFrames(Runes, SpliceTexts))
    \/ OpenPost({"a"})
    \/ AppendRune({TRUE})
    \/ Backspace({TRUE})
    \/ SpliceText({TRUE})
    \/ ClosePost({TRUE})
    \/ Reply
    \/ SolveCaptcha

Spec == Init /\ [][Next]_vars

\* the text protocol with a Store whose writes can fail; 'a' and newline
\* are typed, and splices carry at most one rune
NextFail ==
    \/ Receive(TextFrames({97, NL}, {<<>>, <<97>>, <<NL>>}))
    \/ OpenPost({"a"})
    \/ AppendRune(BOOLEAN)
    \/ Backspace(BOOLEAN)
    \/ SpliceText(BOOLEAN)
    \/ ClosePost(BOOLEAN)
    \/ Reply
    \/ SolveCaptcha

SpecFail == Init /\ [][NextFail]_vars

\* every handler of the client, on both boards; the Store can fail in
\* closePost and in the image handlers
NextAll ==
    \/ Receive(TextFrames({233, NL, NUL}, {<<>>, <<233>>, <<NL>>}) \cup ImageFrames)
    \/ OpenPost(Boards)
    \/ AppendRune({TRUE})
    \/ Backspace({TRUE})
    \/ SpliceText({TRUE})
    \/ ClosePost(BOOLEAN)
    \/ InsertImage
    \/ SpoilerImage
    \/ Reply
    \/ SolveCaptcha

SpecAll == Init /\ [][NextAll]_vars

\* the thread of a post: post 1 is opened in thread 1, post 2 is the
\* opening post of thread 2
PostThread == [n \in PostIDs |-> n]

\* c.feed: the feed of the thread the client's open post belongs to; every
\* message the client sends goes to the subscribers of that thread
feed(p) == p.op

\* another client attaches an image to its post 2
RemoteInsertImage ==
    /\ dbImage[2] = "none"
    /\ dbImage' = [dbImage EXCEPT ![2] = "plain"]
    /\ UNCHANGED <<post, openBodies, dbOpenBody, dbBody, spamScore, inbox, out>>
    /\ UNCHANGED dbVars

\* another client closes its post 2 with "#steal" and a link to post 1:
\* db.TransferImage moves the image of the client's post to post 2
RemoteSteal ==
    /\ dbImage[1] # "none"
    /\ dbImage' = TransferImage(dbImage, 1, 2)
    /\ UNCHANGED <<post, openBodies, dbOpenBody, dbBody, spamScore, inbox, out>>
    /\ UNCHANGED dbVars

\* the client has typed "#steal" into its open post on board "a"
InitSteal ==
    /\ post = [NoPost EXCEPT !.id = 1, !.op = 1, !.board = "a",
                             !.len = Len(StealTag), !.body = StealTag]
    /\ openBodies = [n \in PostIDs |-> IF n = 1 THEN StealTag ELSE Absent]
    /\ dbOpenBody = [n \in PostIDs |-> IF n = 1 THEN StealTag ELSE Absent]
    /\ dbBody = [n \in PostIDs |-> Absent]
    /\ dbImage = [n \in PostIDs |-> "none"]
    /\ spamScore = 0
    /\ inbox = NoMsg
    /\ out = Idle
    /\ DBInit(FALSE)

\* closing and the image handlers of a client whose post holds "#steal",
\* next to another client that attaches and steals images
NextSteal ==
    \/ Receive(ImageFrames \cup {[kind |-> "closePost", ok |-> TRUE, req |-> NoReq]})
    \/ ClosePost(BOOLEAN)
    \/ InsertImage
    \/ SpoilerImage
    \/ RemoteInsertImage
    \/ RemoteSteal
    \/ Reply
    \/ SolveCaptcha

SpecSteal == InitSteal /\ [][NextSteal]_vars

\* two clients post on a process that tracks the OPs
NextDB ==
    \/ \E y \in Yakus : ReservePost(y, {0, 1, 2})
    \/ \E y \in Yakus : InsertPost(y, BOOLEAN, {TRUE})
    \/ \E y \in Yakus : Bump(y)
    \/ \E y \in Yakus : AppendPost(y, Tails, {TRUE})
    \/ \E y \in Yakus : FinishPost(y, {TRUE})
    \/ \E y \in Yakus : Disconnect(y)
    \/ OnOPMessage

SpecDB == Init /\ [][NextDB]_vars

\* client 1 posts on the process that tracks the OPs; client 2 creates
\* threads from another process
NextTail ==
    \/ ReservePost(1, {0, 1, 2})
    \/ RemoteReserve(2)
    \/ \E y \in Yakus : InsertPost(y, BOOLEAN, {TRUE})
    \/ \E y \in Yakus : Bump(y)
    \/ AppendPost(1, Tails, {TRUE})
    \/ FinishPost(1, {TRUE})
    \/ \E y \in Yakus : Disconnect(y)
    \/ OnOPMessage

SpecTail == Init /\ [][NextTail]_vars

\* two clients upload images for the posts they write
NextImage ==
    \/ \E y \in Yakus : ReservePost(y, {0, 1})
    \/ \E y \in Yakus : InsertPost(y, {TRUE}, {TRUE})
    \/ \E y \in Yakus : Bump(y)
    \/ \E y \in Yakus : CheckDuplicate(y, MD5s)
    \/ \E y \in Yakus : AddImage(y, {TRUE})
    \/ \E y \in Yakus : FinishPost(y, {TRUE})
    \/ \E y \in Yakus : Disconnect(y)

InitImage == GoInit /\ DBInit(FALSE)

SpecImage == InitImage /\ [][NextImage]_vars

\* client 1 writes posts while client 2, a moderator, removes them
NextRemove ==
    \/ ReservePost(1, {0, 1})
    \/ InsertPost(1, {TRUE}, {TRUE})
    \/ Bump(1)
    \/ AppendPost(1, Tails, {TRUE})
    \/ FinishPost(1, {TRUE})
    \/ Disconnect(1)
    \/ RemovePost(2, Nums)
    \/ RemoveHidden(2)
    \/ RemoveGot(2)
    \/ RemoveFinish(2)

InitRemove == GoInit /\ DBInit(FALSE)

SpecRemove == InitRemove /\ [][NextRemove]_vars

\* client 1 posts in a store that starts empty, and both clients remove
\* posts, each call in its own stages
NextRemovers ==
    \/ ReservePost(1, {0, 1})
    \/ InsertPost(1, {TRUE}, {TRUE})
    \/ Bump(1)
    \/ FinishPost(1, {TRUE})
    \/ Disconnect(1)
    \/ \E y \in Yakus : RemovePost(y, Nums)
    \/ \E y \in Yakus : RemoveHidden(y)
    \/ \E y \in Yakus : RemoveGot(y)
    \/ \E y \in Yakus : RemoveFinish(y)

SpecRemovers == InitRemove /\ [][NextRemovers]_vars

\* one client posts in thread 1 while both clients listen to it
InitFeed == GoInit /\ DBInit(FALSE)

NextFeed ==
    \/ ReservePost(1, {0, 1})
    \/ InsertPost(1, {TRUE}, {TRUE})
    \/ Bump(1)
    \/ AppendPost(1, {<<"a">>}, {TRUE})
    \/ Disconnect(1)
    \/ \E y \in Yakus : Kiku(y, {1}, {0})
    \/ \E t \in Nums : OnSub(t)
    \/ \E y \in Yakus : Kikanai(y)
    \/ \E y \in Yakus : FetchBacklogs(y)
    \/ \E y \in Yakus : GotBacklogs(y)
    \/ \E t \in Nums : OnMessage(t)

SpecFeed == InitFeed /\ [][NextFeed]_vars

\* ------------------------------------------------------ properties (Go)
\* a handler ran in this step
Handled(kinds) == inbox.kind \in kinds /\ inbox' = NoMsg
TextKinds == {"appendRune", "backspace", "spliceText"}
AllKinds == TextKinds \cup {"closePost", "insertImage", "spoilerImage"}

\* the first n elements of a sequence
Take(sq, n) == SubSeq(sq, 1, IF n < Len(sq) THEN n ELSE Len(sq))

\* C1: whatever appendRune, backspace and spliceText calls were made, and
\* whether they succeeded or failed, the open post's len is the number of
\* runes of its body, len is at most MaxLenBody, and the body holds no NUL
C1_LenIsRuneCount ==
    post.id # 0 =>
        /\ post.len = RuneCount(post.body)
        /\ post.len <= MaxLenBody
        /\ \A i \in 1..Len(post.body) : post.body[i] # NUL

\* a splice was accepted that left a full body with a two-byte rune in it
C1_Witness ==
    /\ out.op = "spliceText"
    /\ out.err = errNone
    /\ post.len = MaxLenBody
    /\ Len(post.body) > post.len

\* C2: the lines counter is the number of newlines of the body and both are
\* at most MaxLinesBody, also after calls that return an error; no body with
\* more newlines is handed to the Feed mirror or the Store
C2_LinesIsNewlineCount ==
    /\ post.id # 0 =>
        /\ post.lines = CountNL(post.body)
        /\ post.lines <= MaxLinesBody
    /\ \A n \in PostIDs :
        /\ openBodies[n] # Absent => CountNL(openBodies[n]) <= MaxLinesBody
        /\ dbOpenBody[n] # Absent => CountNL(dbOpenBody[n]) <= MaxLinesBody

\* the body a splice is meant to leave: prefix + text + suffix in runes,
\* cut at MaxLenBody runes
SpliceResult(body, req) ==
    LET old == DecodeRunes(body) IN
    Take(SubSeq(old, 1, req.start) \o req.text
            \o SubSeq(old, req.start + req.len + 1, Len(old)),
         MaxLenBody)

\* C3: an accepted spliceText leaves the body runes body[0:s] + t +
\* body[s+l:], cut at the tail to MaxLenBody runes, in rune coordinates
C3_SpliceIsReplacement ==
    [][(Handled({"spliceText"}) /\ out'.err = errNone)
        => DecodeRunes(post'.body) = SpliceResult(post.body, inbox.req)]_vars

\* an accepted splice behind a two-byte rune, with a two-byte rune in its text
C3_Witness ==
    /\ out.op = "spliceText"
    /\ out.err = errNone
    /\ out.sent[1].start >= 1
    /\ post.body[1] = 195
    /\ \E i \in 1..Len(out.sent[1].text) : out.sent[1].text[i] = 195

\* the overflow of a splice request on a body
Exceeding(body, req) == RuneCount(body) - req.len + Len(req.text) - MaxLenBody

\* a splice that overflows was accepted in this step
OverflowStep ==
    /\ Handled({"spliceText"})
    /\ out'.err = errNone
    /\ Exceeding(post.body, inbox.req) > 0

\* C4 as stated: on overflow the submitted text is trimmed from the right by
\* the overflow, the broadcast len is currentRuneLen - start, and the body
\* has MaxLenBody runes
C4_TextIsTrimmed ==
    [][OverflowStep =>
        LET old == DecodeRunes(post.body)
            req == inbox.req
            kept == SubSeq(req.text, 1, Len(req.text) - Exceeding(post.body, req))
        IN /\ DecodeRunes(post'.body) =
                SubSeq(old, 1, req.start) \o kept
                    \o SubSeq(old, req.start + req.len + 1, Len(old))
           /\ out'.sent[1].len = Len(old) - req.start
           /\ RuneCount(post'.body) = MaxLenBody]_vars

\* C4 amended: on overflow the new tail, text + old suffix, is trimmed from
\* the right by the overflow (the submitted text is kept before the old
\* suffix); the broadcast carries len = currentRuneLen - start and that
\* trimmed tail as text, and the body has MaxLenBody runes
C4_TailIsTrimmed ==
    [][OverflowStep =>
        LET old == DecodeRunes(post.body)
            req == inbox.req
            tail == req.text \o SubSeq(old, req.start + req.len + 1, Len(old))
            kept == SubSeq(tail, 1, Len(tail) - Exceeding(post.body, req))
        IN /\ DecodeRunes(post'.body) = SubSeq(old, 1, req.start) \o kept
           /\ out'.sent[1].len = Len(old) - req.start
           /\ DecodeRunes(out'.sent[1].text) = kept
           /\ out'.sent[1].start = req.start
           /\ RuneCount(post'.body) = MaxLenBody]_vars

\* an insertion at the front of a full body was accepted: the broadcast
\* replaces the whole body and its text starts with the two runes submitted
C4_Witness ==
    /\ out.op = "spliceText"
    /\ out.err = errNone
    /\ out.sent[1].start = 0
    /\ out.sent[1].len = MaxLenBody
    /\ Len(DecodeRunes(out.sent[1].text)) = MaxLenBody
    /\ post.len = MaxLenBody

\* C5: a handler called without an open post fails with errNoPostOpen and
\* changes neither the Store nor the Feed
C5_NoPostOpen ==
    [][(Handled(AllKinds) /\ post.id = 0) =>
        /\ out'.err = errNoPostOpen
        /\ out'.sent = <<>>
        /\ UNCHANGED <<openBodies, dbOpenBody, dbBody, dbImage>>]_vars

\* closePost was refused after the client's post had been closed
C5_Witness ==
    /\ out.op = "closePost"
    /\ out.err = errNoPostOpen
    /\ dbBody[1] # Absent

\* C6: when the Store write of appendRune, backspace, spliceText or
\* closePost fails, no message of the call reaches the subscribers and the
\* Feed mirror is not updated
C6_BroadcastAfterCommit ==
    [][(Handled(TextKinds \cup {"closePost"}) /\ out'.err = errDB) =>
        /\ out'.sent = <<>>
        /\ openBodies' = openBodies]_vars

\* --------------------------------------------------- properties (db.js)
\* what on_update has handed to a Yakusoku
Live(y) == SelectSeq(seen[y], LAMBDA e : e.live)
IsSuffix(a, b) == Len(a) <= Len(b) /\ a = SubSeq(b, Len(b) - Len(a) + 1, Len(b))
\* what a step has added to the messages handed to a Yakusoku
Handed(y) == SubSeq(seen'[y], Len(seen[y]) + 1, Len(seen'[y]))
\* the connection of the thread's Subscription delivers a message
Delivers(t) ==
    /\ SUBS[t].up /\ SUBS'[t].up
    /\ SUBS[t].q # <<>>
    /\ SUBS'[t].q = Tail(SUBS[t].q)

C8_ReplayThenLive ==
    \A y \in Yakus :
        yaku[y].phase = "synced" =>
            \A i \in 1..Len(seen[y]) : seen[y][i].ctr = yaku[y].sync + i - 1

\* every message waiting on a connection is the history entry of its counter
Published(items) ==
    \A i \in 1..Len(items) :
        LET m == items[i] IN
        /\ m.ctr < Len(rHistory[m.op])
        /\ rHistory[m.op][m.ctr + 1] = m.msg
        /\ \A j \in (i + 1)..Len(items) :
            items[j].op = m.op => items[j].ctr > m.ctr

\* the messages waiting on the connection of the Subscription of thread t
Waiting(t) ==
    [i \in 1..Len(SUBS[t].q) |->
        [op |-> t, msg |-> SUBS[t].q[i].msg, ctr |-> SUBS[t].q[i].ctr]]

\* C9: hctr of a thread is the length of its history; a commit adds one
\* entry to one history and one to its hctr, and publishes that entry on
\* the channel of the thread; the messages on a connection are history
\* entries in the order of the history.
C9_HistoryCounter ==
    /\ [](/\ \A t \in Nums : rHctr[t] = Len(rHistory[t])
          /\ Published(opQ)
          /\ \A t \in Nums : Published(Waiting(t)))
    /\ [][\A t \in Nums :
            \/ rHistory'[t] = rHistory[t] /\ rHctr'[t] = rHctr[t]
            \/ /\ Len(rHistory'[t]) = Len(rHistory[t]) + 1
               /\ SubSeq(rHistory'[t], 1, Len(rHistory[t])) = rHistory[t]
               /\ rHctr'[t] = rHctr[t] + 1
               /\ \A u \in Nums \ {t} : rHistory'[u] = rHistory[u]
               /\ tracking =>
                    opQ' = Append(opQ, [op |-> t, msg |-> rHistory'[t][Len(rHistory'[t])],
                                        ctr |-> Len(rHistory[t])])]_vars

\* thread 1 has logged an insert, an update and a finish, and the tracker
\* has messages waiting
C9_Witness ==
    /\ Len(rHistory[1]) >= 3
    /\ rHctr[1] >= 3
    /\ Len(opQ) >= 2
    /\ \E n \in Nums : rHash[n].body # NoKey

\* C10: OPs maps every inserted post to the thread it is stored under, and
\* holds entries for reserved post numbers only.
C10_RegistryOwnsPosts ==
    /\ \A n \in Nums : rHash[n].exists => OPs[n] = Owner(n)
    /\ \A k \in OPKeys : OPs[k] # 0 => k \in 1..rPostctr

\* C11: when insert_post is aborted (the thread of the insert does not
\* exist, or m.exec fails), OPs has no entry for the post number that was
\* reserved for it.
C11_AbortDiscardsReservation ==
    [][\A y \in Yakus :
        (yaku[y].pstate = "reserved" /\ yaku'[y].pstate = "none")
            => OPs'[yaku[y].num] = 0]_vars

\* the OP tracker's connection delivers a message
Tracks == opQ # <<>> /\ opQ' = Tail(opQ)

\* C12: the OP tracker records num -> op for every INSERT_POST message
\* of a thread channel, also for posts that were reserved on another
\* process, and a message of any other kind leaves OPs as it is.
C12_TrackerRecordsInserts ==
    [][Tracks =>
        LET m == Head(opQ)
            info == MatchKindNum(m.msg)
        IN IF info[1] = INSERT_POST
           THEN OPs' = [OPs EXCEPT ![info[2]] = m.op]
           ELSE OPs' = OPs]_vars

\* C13: the score of a thread in the sorted set of its board never
\* decreases, and the insert of a sage reply changes neither the bump
\* counter nor a score.
C13_ScoreNeverDecreases ==
    [][/\ \A t \in Nums : rThreads'[t] >= rThreads[t]
       /\ \A n \in Nums :
            (~rHash[n].exists /\ rHash'[n].exists /\ rHash'[n].op # 0 /\ rHash'[n].sage)
                => rBumpctr' = rBumpctr /\ rThreads' = rThreads]_vars

\* C14: no two inserted posts carry an image with the same MD5.
C14_UniqueMD5 ==
    \A n1, n2 \in Nums :
        (n1 # n2 /\ rHash[n1].exists /\ rHash[n2].exists /\ rHash[n1].image # NoKey)
            => rHash[n1].image # rHash[n2].image

\* C15: a spoilerImage on an open post whose image is already spoilered
\* broadcasts no Spoiler message and leaves the Store as it is.
C15_SpoilerIdempotent ==
    [][(Handled({"spoilerImage"}) /\ post.id # 0 /\ dbImage[post.id] = "spoiler")
        => out'.sent = <<>> /\ dbImage' = dbImage]_vars

\* C16: insertImage on an open post fails with the has_image error exactly
\* when the Store records an image for that post at the time of the call
\* (a Store that does not answer is a database error)
C16_HasImageError ==
    [][(Handled({"insertImage"}) /\ post.id # 0)
        => /\ dbImage[post.id] # "none" => out'.err \in {errHasImage, errDB}
           /\ out'.err = errHasImage => dbImage[post.id] # "none"]_vars

\* C17: a steal that moves an image between posts of different threads
\* publishes to both feeds: StoleImageFrom reaches the feed of the robbed
\* post's thread and StoleImageTo the feed of the stealing post's thread
C17_StealPublishesToBothFeeds ==
    [][Handled({"closePost"}) =>
        \A i \in 1..Len(out'.sent) :
            LET m == out'.sent[i] IN
            /\ m.type = "StoleImageFrom" => feed(post) = PostThread[m.id]
            /\ m.type = "StoleImageTo" => feed(post) = PostThread[m.id]]_vars

\* the request breaks a coordinate or content rule of spliceText
BreaksSpliceRule(p, req) ==
    \/ req.start > MaxLenBody
    \/ req.len > MaxLenBody
    \/ req.start + req.len > Len(DecodeRunes(p.body))
    \/ req.len = 0 /\ req.text = <<>>
    \/ Len(req.text) > MaxLenBody
    \/ \E i \in 1..Len(req.text) : req.text[i] = NUL \/ ~IsPrintable(req.text[i], TRUE)

\* C18: a spliceText request that breaks a coordinate or content rule returns
\* an error, broadcasts nothing, writes nothing to the Store, adds nothing to
\* the spam score and leaves body, len and lines of the open post unchanged
C18_RejectedSpliceChangesNothing ==
    [][(Handled({"spliceText"}) /\ post.id # 0 /\ inbox.ok
            /\ BreaksSpliceRule(post, inbox.req))
        => /\ out'.err # errNone
           /\ out'.sent = <<>>
           /\ post' = post
           /\ UNCHANGED <<openBodies, dbOpenBody, dbBody, dbImage, spamScore>>]_vars

\* an empty splice was rejected on a post that has text
C18_Witness ==
    /\ out.op = "spliceText"
    /\ out.err = errSpliceNOOP
    /\ post.id # 0
    /\ post.len > 0

\* C19: when appendRune(r) succeeds on an open post, a backspace() that
\* follows it immediately restores the body bytes and len to their values
\* before the append, while the spam score has grown and grows again
C19_BackspaceUndoesAppend ==
    [][(Handled({"appendRune"}) /\ post.id # 0 /\ out'.err = errNone)
        => LET b == backspace(post') IN
           /\ b.upd
           /\ b.post.body = post.body
           /\ b.post.len = post.len
           /\ spamScore' > spamScore
           /\ updateBody(b.post, b.msg, b.n, TRUE).spam > spamScore]_vars

\* a two-byte rune was appended to a body that already held a rune
C19_Witness ==
    /\ out.op = "appendRune"
    /\ out.err = errNone
    /\ post.len = 2
    /\ Len(post.body) > 2
    /\ \E i \in 1..Len(out.sent) : out.sent[i] = [type |-> "Append", id |-> post.id, char |-> 233]
    /\ backspace(post).post.len = 1

\* post n has been closed: the Store holds its final body
Closed(n) == dbBody[n] # Absent

\* C20: after closePost succeeds for post p the client's openPost is cleared
\* and the body of p is immutable: no later appendRune, backspace or
\* spliceText changes the stored body, recreates the open-body key or
\* broadcasts an Append, Backspace or Splice for p; when closePost fails the
\* openPost is not cleared
C20_ClosedIsImmutable ==
    [][/\ (Handled({"closePost"}) /\ post.id # 0) =>
            IF out'.err = errNone
            THEN post' = NoPost /\ dbBody'[post.id] # Absent /\ dbOpenBody'[post.id] = Absent
            ELSE post'.id = post.id /\ dbBody'[post.id] = Absent
       /\ \A n \in PostIDs : Closed(n) =>
            /\ dbBody'[n] = dbBody[n]
            /\ dbOpenBody'[n] = Absent
            /\ openBodies'[n] = Absent
            /\ Handled(TextKinds) =>
                \A i \in 1..Len(out'.sent) :
                    ~(out'.sent[i].type \in {"Append", "Backspace", "Splice"}
                        /\ out'.sent[i].id = n)]_vars

\* a closed post holds text and the client has since sent a text request
C20_Witness ==
    /\ Closed(1)
    /\ dbBody[1] # <<>>
    /\ post = NoPost
    /\ out.op \in TextKinds

\* C24: insertImage never changes the client's spam score, on any of its
\* outcomes
C24_InsertImageKeepsSpam ==
    [][Handled({"insertImage"}) => spamScore' = spamScore]_vars

\* C23: each accepted spliceText raises the client's spam score by exactly
\* runeLen(finalText) + 1 character scores, finalText being the text of the
\* broadcast splice counted in runes
C23_SpliceSpamCountsRunes ==
    [][(Handled({"spliceText"}) /\ out'.sent # <<>>)
        => spamScore' = spamScore + (Len(DecodeRunes(out'.sent[1].text)) + 1) * CharScore]_vars

\* a subscriber applies one broadcast message to its copy of a body: Append
\* adds the rune, Backspace drops the last rune, Splice replaces len runes
\* from rune index start by the text
ApplyMessage(body, m) ==
    LET rs == DecodeRunes(body) IN
    IF m.type = "Append" THEN body \o EncodeRune(m.char)
    ELSE IF m.type = "Backspace" THEN EncodeRunes(SubSeq(rs, 1, Len(rs) - 1))
    ELSE IF m.type = "Splice"
    THEN EncodeRunes(SubSeq(rs, 1, m.start)) \o m.text
            \o EncodeRunes(SubSeq(rs, m.start + m.len + 1, Len(rs)))
    ELSE body

\* the copy after the messages of a call, in order
RECURSIVE ApplyMessages(_, _)
ApplyMessages(body, msgs) ==
    IF msgs = <<>> THEN body
    ELSE ApplyMessages(ApplyMessage(body, Head(msgs)), Tail(msgs))

\* C26: replica convergence: a subscriber whose copy equals the Feed
\* mirror's body before a call of the owner, and who applies the Append,
\* Backspace and Splice messages the call broadcasts, holds the mirror's
\* body after it
C26_ReplicaConverges ==
    [][(Handled(TextKinds) /\ post.id # 0)
        => openBodies'[post.id] = ApplyMessages(openBodies[post.id], out'.sent)]_vars

\* C27: an appendRune or spliceText that fails with too_many_lines leaves
\* the open post exactly as it was before the call (body, len and lines), so
\* the client's buffer stays equal to the Feed mirror and the Store's open body
C27_TooManyLinesChangesNothing ==
    [][(Handled({"appendRune", "spliceText"}) /\ out'.err = errTooManyLines)
        => /\ post' = post
           /\ post'.body = openBodies'[post.id]
           /\ post'.body = dbOpenBody'[post.id]]_vars

\* C30: when closePost rewrites the body through the filters, the broadcast
\* Splice is full-range in rune coordinates: start 0, len the rune length of
\* the body before filtering, text the new body
C30_FilterSpliceInRunes ==
    [][(Handled({"closePost"}) /\ post.id # 0) =>
        \A i \in 1..Len(out'.sent) :
            out'.sent[i].type = "Splice" =>
                /\ out'.sent[i].start = 0
                /\ out'.sent[i].len = Len(DecodeRunes(post.body))
                /\ out'.sent[i].text = ApplyFilters(post.body)]_vars

\* C22: when the last subscriber of a thread unsubscribes, the thread's
\* Subscription is kept and not torn down, so that a client subscribing
\* afterwards reuses it
C22_FeedOutlivesSubscribers ==
    [][\A t \in DOMAIN SUBS : SUBS[t].up => SUBS'[t].up]_vars

\* the posts of thread t whose open-body key exists
OpenPostsOf(t) ==
    {n \in Nums : rBody[n] # NoKey /\ (IF rHash[n].op = 0 THEN n ELSE rHash[n].op) = t}

\* C21: a subscribing client is sent exactly the backlog entries after its
\* cursor, in order, followed by one synthetic Splice carrying the open body
\* of each open post of the thread
C21_BacklogThenSnapshots ==
    [][\A y \in Yakus :
        (yaku[y].phase = "fetching" /\ yaku'[y].phase = "synced") =>
            LET h == Handed(y)
                k == Len(yaku[y].log)
            IN /\ Len(h) = k + Cardinality(OpenPostsOf(yaku[y].thread))
               /\ \A i \in 1..k : h[i].msg = yaku[y].log[i] /\ h[i].ctr = yaku[y].sync + i - 1
        ]_vars

\* client y is handed a post id in this step
Reserves(y) == yaku[y].pstate = "none" /\ yaku'[y].pstate = "reserved"

\* C25: post ids come from a single counter: no two reserve_post calls
\* return the same id, ids are returned in strictly increasing order of
\* allocation, and an id whose post is never inserted is not handed out again
C25_IdsFromOneCounter ==
    /\ [](\A y1, y2 \in Yakus :
            (y1 # y2 /\ yaku[y1].num # 0 /\ yaku[y2].num # 0)
                => yaku[y1].num # yaku[y2].num)
    /\ [](\A y \in Yakus : yaku[y].num <= rPostctr)
    /\ [](\A n \in Nums : rHash[n].exists => n <= rPostctr)
    /\ [][/\ rPostctr' >= rPostctr
          /\ \A y \in Yakus : Reserves(y) =>
                /\ yaku'[y].num > rPostctr
                /\ rPostctr' = yaku'[y].num]_vars

\* the post of id 1 was never inserted, its client is gone, and id 2 has
\* been handed out
C25_Witness ==
    /\ rPostctr = 2
    /\ ~rHash[1].exists
    /\ \A y \in Yakus : yaku[y].num # 1
    /\ \E y \in Yakus : yaku[y].num = 2 /\ yaku[y].pstate = "reserved"

\* thread t has been inserted: its record exists in the store
ThreadInserted(t) == t \in Nums /\ rHash[t].exists /\ rHash[t].op = 0

\* C28: a reply insert_post whose op names a thread that has never been
\* inserted fails with 'Thread does not exist', also when the thread's id
\* has only been reserved: the reply is not written to the store
C28_ReplyNeedsInsertedThread ==
    [][\A y \in Yakus :
        (/\ yaku[y].pstate = "reserved"
         /\ yaku[y].op # 0
         /\ yaku[y].op # yaku[y].num
         /\ ~ThreadInserted(yaku[y].op)
         /\ yaku'[y].pstate # "reserved")
            => /\ yaku'[y].pstate = "none"
               /\ ~rHash'[yaku[y].num].exists
               /\ rHistory' = rHistory]_vars

\* the final body of post n has been written to its record
Finished(n) == rHash[n].body # NoKey

\* C29: the open-body key of a post exists only while the post is open: once
\* the final body has been written to the post's record the key is absent in
\* every later state, also when the owner appends after that, and the final
\* body holds all the text the owner appended
C29_NoBodyKeyAfterFinish ==
    /\ [](\A n \in Nums : Finished(n) => rBody[n] = NoKey)
    /\ [][\A n \in Nums : (~Finished(n) /\ Finished(n)') =>
            \A y \in Yakus :
                (yaku[y].pstate = "open" /\ yaku[y].num = n)
                    => rHash'[n].body = yaku[y].body]_vars

\* the messages of a steal among those a call hands to the feed
StealMessages(msgs) ==
    SelectSeq(msgs, LAMBDA m : m.type \in {"StoleImageFrom", "StoleImageTo"})

AppendOrFinishCalled(y) ==
    /\ yaku[y].pstate = "open"
    /\ yaku'[y] # yaku[y]
    /\ ~(yaku'[y].pstate = "none" /\ rHash' = rHash)

\* C32: append_post and finish_post on the first post of a thread, whose op
\* field is unset, commit the mutation and append their message to the
\* history of the thread with the post's own number, which gains exactly
\* one entry and one count, like for a reply
C32_FirstPostLogsToOwnThread ==
    [][\A y \in Yakus :
        (AppendOrFinishCalled(y) /\ yaku[y].op = 0)
            => LET num == yaku[y].num IN
               /\ yaku'[y].pstate # "thrown"
               /\ Len(rHistory'[num]) = Len(rHistory[num]) + 1
               /\ rHctr'[num] = rHctr[num] + 1
               /\ (rBody'[num] # rBody[num] \/ rHash'[num] # rHash[num])]_vars

\* how many entries of dels report post n removed
RemovedReports(dels, n) == Len(SelectSeq(dels, LAMBDA d : d.err = "" /\ d.num = n))

\* how many remove_post callbacks, of all clients, have reported the removal
\* [op, n]
TimesRemoved(n) == RemovedReports(yaku[1].dels, n) + RemovedReports(yaku[2].dels, n)

\* the calls that have taken n from its thread's list and have not yet
\* answered
Removing(n) == {y \in Yakus : yaku[y].removal.stage = "hide" /\ yaku[y].removal.num = n}

\* n is a reply that has been inserted in another post's thread
InsertedReply(n) == rHash[n].exists /\ rHash[n].op # 0 /\ rHash[n].op # n

\* n is the first post of a thread that has been inserted
FirstPost(n) == rHash[n].exists /\ rHash[n].op = 0

InList(n, list) == \E i \in 1..Len(list) : list[i] = n

\* C33: a reply that remove_post reports removed has left OPs and its
\* thread's list; however many calls remove the same reply, one after the
\* other or at once, the reply is in its thread's list, or one call is about
\* to report it removed, or one call has reported it removed, and never two
\* of these, and every other call is answered 'No such post.' or -num;
\* remove_post on a thread's first post is refused and changes neither OPs
\* nor the store
C33_RemoveOnce ==
    /\ [](\A n \in Nums :
            /\ TimesRemoved(n) <= 1
            /\ InsertedReply(n) =>
                 (IF InList(n, rPosts[rHash[n].op]) THEN 1 ELSE 0)
                    + Cardinality(Removing(n)) + TimesRemoved(n) = 1
            /\ TimesRemoved(n) = 1 => OPs[n] = 0 /\ \A t \in Nums : ~InList(n, rPosts[t]))
    /\ [][\A y \in Yakus :
            Len(yaku'[y].dels) > Len(yaku[y].dels) =>
                LET del == yaku'[y].dels[Len(yaku'[y].dels)] IN
                /\ InsertedReply(del.arg) =>
                        \/ del = DelDone(rHash[del.arg].op, del.arg)
                               /\ OPs'[del.arg] = 0
                               /\ ~InList(del.arg, rPosts'[del.op])
                        \/ del = DelGone(del.arg)
                        \/ del = DelErr(del.arg, "No such post.")
                /\ FirstPost(del.arg) =>
                        /\ del = DelErr(del.arg, "Thread deletion not supported yet.")
                        /\ <<OPs, rPosts, rHash, rBody, rHistory, rHctr, rThreads, rMD5s>>'
                              = <<OPs, rPosts, rHash, rBody, rHistory, rHctr, rThreads, rMD5s>>
           ]_vars

\* reply 2 of thread 1 has been removed by client 1 while client 2 asked
\* for the same removal and was answered -2
C33_Witness ==
    /\ yaku[1].dels = <<DelDone(1, 2)>>
    /\ yaku[2].dels = <<DelGone(2)>>
    /\ OPs[2] = 0 /\ OPs[1] = 1
    /\ rPosts[1] = <<>>
    /\ FirstPost(1) /\ InsertedReply(2)

====
